---- MODULE Spec2Model ----
(***************************************************************************)
(* Singularity: explicit single-instance lifecycle management.            *)
(*                                                                         *)
(* The repository holds the same controller (create / destroy / get over  *)
(* per-type static storage, guarded by a threading policy object) in      *)
(* several headers.  A program includes exactly one of them; `variant`    *)
(* records which:                                                          *)
(*   "raw"    singularity.hpp, singularity_explicit.hpp                    *)
(*            (bool created per T, raw instance_ptr per T and policy M)    *)
(*   "scoped" unnamed/part_000, unnamed/part_004 (singularity_factory)     *)
(*            (scoped_ptr per T, static access policy)                     *)
(*   "dyn11"  unnamed/part_002 (create_enable_get/get, create_global/      *)
(*            get_global; unique_ptr per T plus get_enabled)               *)
(*   "dyn03"  doc/singularity_partially_unrolled.hpp (scoped_ptr per T     *)
(*            plus get_enabled; destroy is a single reset())               *)
(* Every handler is split at its statements, so that calls of several     *)
(* threads interleave exactly where the code lets them.                    *)
(***************************************************************************)
EXTENDS Integers, FiniteSets, Sequences, TLC

\* ------------------------------------------------------------------ bounds
NThreads == 2
MaxObjs == 3

\* --------------------------------------------------------------- constants
NULL == 0
Unlocked == 0

Threads == 1..NThreads
Objs == 1..MaxObjs
Types == {"T1", "T2"}
OneType == {"T1"}
Policies == {"single_threaded", "multi_threaded"}
AccessPolicies == {"local_access", "global_access"}
Variants == {"raw", "scoped", "dyn03", "dyn11"}
StaticVariants == {"raw", "scoped"}
DynamicVariants == {"dyn03", "dyn11"}
CreateKinds == {"create", "create_global"}
Kinds == CreateKinds \cup {"destroy", "get"}

VARIABLES
    variant,        \* which header the program is built with
    created,        \* raw: singularity_state<T>::created; base: singularity_base<T, M>::created
    instance_ptr,   \* raw: singularity_instance<T, M>::instance_ptr
    ptr,            \* scoped/dyn: detail::singularity_instance<T>::ptr
    get_enabled,    \* dyn: detail::singularity_instance<T>::get_enabled
    lockable,       \* multi_threaded<T>::lockable: Unlocked or the owning thread
    heap,           \* every T object ever made by `new T`: unallocated/live/deleted
    dtor_calls,     \* how many times each object's destructor has run
    type_of,        \* the managed type each object is an instance of
    made_by,        \* history: the create overload that made each object
    aborted,        \* the process has been killed by undefined behaviour
    pc,             \* each thread's position inside the handler it runs
    op,             \* the call each thread runs (or ran last)
    result,         \* the outcome of each thread's last call
    ref,            \* the T& a thread's last create/get returned (NULL: none)
    pre,            \* history: the slot of op.T as it was when the call began
    last_pass,      \* history: kind of the last create on T that passed the check
    n_ok,           \* history: successful creates on T since T's last successful destroy
    last_ret,       \* history: the instance the last successful create on T returned
    last_via,       \* history: the access policy of the instantiation that made it
    unwound,        \* history: a multi_threaded guard has been destroyed by a throw
    abs,            \* history: the slot of each T after the calls linearized so far
    expect          \* history: the outcome the sequential controller gives the call

slotvars == <<created, instance_ptr, ptr, get_enabled>>
heapvars == <<heap, dtor_calls, type_of, made_by, aborted>>
vars == <<variant, created, instance_ptr, ptr, get_enabled, lockable, heap,
          dtor_calls, type_of, made_by, aborted, pc, op, result, ref, pre,
          last_pass, n_ok, last_ret, last_via, unwound, abs, expect>>

NoOutcome == [res |-> "none", ref |-> NULL]

NoOp == [kind |-> "none", T |-> "T1", M |-> "single_threaded",
         G |-> "local_access", throws |-> FALSE]

\* The calls a program built with variant v can make.  get() exists only with
\* global_access in the static variants (singularity_global_access has no
\* specialization for local_access; BOOST_MPL_ASSERT in the scoped_ptr one);
\* the dynamic variants have no access policy parameter and offer
\* create_global / create_enable_get instead.
Calls(v, Ts, Ms) ==
    { o \in [kind : Kinds, T : Ts, M : Ms, G : AccessPolicies, throws : BOOLEAN] :
        /\ (o.throws => o.kind \in CreateKinds)
        /\ (v \in StaticVariants => o.kind # "create_global")
        /\ (v \in StaticVariants /\ o.kind = "get" => o.G = "global_access")
        /\ (v \in DynamicVariants => o.G = "local_access") }

\* The per-type slot as one value.
Slot(T) == [created |-> created[T], instance_ptr |-> instance_ptr[T],
            ptr |-> ptr[T], get_enabled |-> get_enabled[T]]

EmptySlot == [created |-> FALSE, instance_ptr |-> [M \in Policies |-> NULL],
              ptr |-> NULL, get_enabled |-> FALSE]

\* State Live of the lifecycle controller: what detect_already_created /
\* verify_not_created and destroy's first check test.
IsLive(v, s) == IF v = "raw" THEN s.created ELSE s.ptr # NULL

\* The pointer a handler of policy M reads and writes.
Held(v, s, M) == IF v = "raw" THEN s.instance_ptr[M] ELSE s.ptr

\* The instances of T that are alive.
LiveObjs(T) == {o \in Objs : heap[o] = "live" /\ type_of[o] = T}

\* The static initialisers, and nothing called yet.
Start ==
    /\ created = [T \in Types |-> FALSE]
    /\ instance_ptr = [T \in Types |-> [M \in Policies |-> NULL]]
    /\ ptr = [T \in Types |-> NULL]
    /\ get_enabled = [T \in Types |-> FALSE]
    /\ lockable = [T \in Types |-> Unlocked]
    /\ heap = [o \in Objs |-> "unallocated"]
    /\ dtor_calls = [o \in Objs |-> 0]
    /\ type_of = [o \in Objs |-> "none"]
    /\ made_by = [o \in Objs |-> "none"]
    /\ aborted = FALSE
    /\ pc = [t \in Threads |-> "idle"]
    /\ op = [t \in Threads |-> NoOp]
    /\ result = [t \in Threads |-> "none"]
    /\ ref = [t \in Threads |-> NULL]
    /\ pre = [t \in Threads |-> EmptySlot]
    /\ last_pass = [T \in Types |-> "none"]
    /\ n_ok = [T \in Types |-> 0]
    /\ last_ret = [T \in Types |-> NULL]
    /\ last_via = [T \in Types |-> "none"]
    /\ unwound = FALSE
    /\ abs = [T \in Types |-> EmptySlot]
    /\ expect = [t \in Threads |-> NoOutcome]

Init == variant \in Variants /\ Start

\* ------------------------------------------------- sequential controller
\* One whole call run alone on slot s: its outcome and the slot it leaves.
\* x is the object `new T` yields when the call constructs one.
SeqCreate(v, s, o, x) ==
    IF IsLive(v, s)
    THEN [res |-> "already_created", ref |-> NULL, slot |-> s]
    ELSE LET s1 == IF v \in DynamicVariants
                   THEN [s EXCEPT !.get_enabled = (o.kind = "create_global")]
                   ELSE s
         IN  IF o.throws
             THEN [res |-> "ctor_exception", ref |-> NULL, slot |-> s1]
             ELSE [res |-> "ok", ref |-> x,
                   slot |-> IF v = "raw"
                            THEN [s1 EXCEPT !.instance_ptr[o.M] = x, !.created = TRUE]
                            ELSE [s1 EXCEPT !.ptr = x]]

SeqDestroy(v, s, o) ==
    IF ~IsLive(v, s)
    THEN [res |-> "already_destroyed", ref |-> NULL, slot |-> s]
    ELSE IF v = "raw" /\ s.instance_ptr[o.M] = NULL
    THEN [res |-> "destroy_on_incorrect_threading", ref |-> NULL, slot |-> s]
    ELSE [res |-> "ok", ref |-> NULL,
          slot |-> IF v = "raw"
                   THEN [s EXCEPT !.instance_ptr[o.M] = NULL, !.created = FALSE]
                   ELSE [s EXCEPT !.ptr = NULL]]

SeqGet(v, s, o) ==
    IF v \in DynamicVariants /\ ~s.get_enabled
    THEN [res |-> "no_global_access", ref |-> NULL, slot |-> s]
    ELSE IF Held(v, s, o.M) = NULL
    THEN [res |-> "not_created", ref |-> NULL, slot |-> s]
    ELSE [res |-> "ok", ref |-> Held(v, s, o.M), slot |-> s]

SeqCall(v, s, o, x) ==
    IF o.kind \in CreateKinds THEN SeqCreate(v, s, o, x)
    ELSE IF o.kind = "destroy" THEN SeqDestroy(v, s, o)
    ELSE SeqGet(v, s, o)

\* The lifecycle every header implements, in terms of Empty and Live only:
\* where a create or destroy leaves the slot, and what it answers.
After(state, o) ==
    IF o.kind \in CreateKinds /\ ~o.throws THEN "Live"
    ELSE IF o.kind = "destroy" THEN "Empty"
    ELSE state

Outcome(state, o) ==
    IF o.kind \in CreateKinds
    THEN IF state = "Live" THEN "already_created"
         ELSE IF o.throws THEN "ctor_exception" ELSE "ok"
    ELSE IF o.kind = "destroy"
    THEN IF state = "Live" THEN "ok" ELSE "already_destroyed"
    ELSE "none"

\* ------------------------------------------------------------ the handlers
\* The end of a handler's body: by return or by throw.  The guard object is
\* still alive; its destructor runs next (guard_dtor).  The call takes effect
\* in the sequential order of calls here (history variables abs, expect).
Finish(t, res, r) ==
    /\ pc' = [pc EXCEPT ![t] = "guard_dtor"]
    /\ result' = [result EXCEPT ![t] = res]
    /\ ref' = [ref EXCEPT ![t] = r]
    /\ LET c == SeqCall(variant, abs[op[t].T], op[t], r)
       IN  /\ expect' = [expect EXCEPT ![t] = [res |-> c.res, ref |-> c.ref]]
           /\ abs' = [abs EXCEPT ![op[t].T] = c.slot]
    /\ last_via' = [last_via EXCEPT ![op[t].T] =
                       IF res = "ok" /\ op[t].kind \in CreateKinds THEN op[t].G ELSE @]
    /\ last_ret' = [last_ret EXCEPT ![op[t].T] =
                       IF res = "ok" /\ op[t].kind \in CreateKinds THEN r ELSE @]
    /\ n_ok' = [n_ok EXCEPT ![op[t].T] =
                   IF res # "ok" \/ op[t].kind = "get" THEN @
                   ELSE IF op[t].kind = "destroy" THEN 0 ELSE @ + 1]
    /\ UNCHANGED unwound

Goto(t, label) ==
    /\ pc' = [pc EXCEPT ![t] = label]
    /\ UNCHANGED <<result, ref, abs, expect, n_ok, last_ret, last_via,
                   unwound>>

\* The model's heap holds MaxObjs objects: a create call begins only while one
\* is left for it.
PendingNew ==
    {u \in Threads : /\ op[u].kind \in CreateKinds
                     /\ pc[u] \in {"guard_ctor", "create_check",
                                   "create_set_enabled", "create_new"}}

HeapLeft ==
    Cardinality({x \in Objs : heap[x] = "unallocated"}) > Cardinality(PendingNew)

\* A call begins: the static member function is entered.
Call(t, Cs) ==
    /\ ~aborted
    /\ pc[t] = "idle"
    /\ \E o \in Cs :
        /\ (o.kind \in CreateKinds => HeapLeft)
        /\ op' = [op EXCEPT ![t] = o]
    /\ pc' = [pc EXCEPT ![t] = "guard_ctor"]
    /\ UNCHANGED <<variant, slotvars, lockable, heapvars,
                   result, ref, last_pass, n_ok, last_ret, last_via,
                   unwound, abs, expect>>

FirstStep(v, o) ==
    IF o.kind \in CreateKinds THEN "create_check"
    ELSE IF o.kind = "destroy" THEN "destroy_check"
    ELSE IF v \in DynamicVariants THEN "get_check_enabled"
    ELSE "get_check"

\* Mutant: lock() that does not wait for the mutex to be free.
Lock_NoWait(T, M, t) ==
    IF M = "multi_threaded"
    THEN lockable' = [lockable EXCEPT ![T] = t]
    ELSE UNCHANGED lockable

\* Mutant: try_lock() whose failure is ignored.
Lock_TryOnly(T, M, t) ==
    IF M = "multi_threaded" /\ lockable[T] = Unlocked
    THEN lockable' = [lockable EXCEPT ![T] = t]
    ELSE UNCHANGED lockable

\* Mutant: a single_threaded policy that locks like multi_threaded.
Lock_AnyPolicy(T, M, t) ==
    /\ lockable[T] = Unlocked
    /\ lockable' = [lockable EXCEPT ![T] = t]

\* Mutant: one mutex shared by every multi_threaded<T>, instead of the static
\* member of each instantiation.
Lock_OneForAll(T, M, t) ==
    IF M = "multi_threaded"
    THEN /\ \A U \in Types : lockable[U] = Unlocked
         /\ lockable' = [lockable EXCEPT ![T] = t]
    ELSE UNCHANGED lockable

\* M<T> guard;  multi_threaded() locks the mutex of T, single_threaded has no
\* constructor.
Lock(T, M, t) ==
    IF M = "multi_threaded"
    THEN /\ lockable[T] = Unlocked
         /\ lockable' = [lockable EXCEPT ![T] = t]
    ELSE UNCHANGED lockable

guard_ctor(t) ==
    /\ ~aborted
    /\ pc[t] = "guard_ctor"
    /\ Lock(op[t].T, op[t].M, t)
    /\ Goto(t, FirstStep(variant, op[t]))
    /\ UNCHANGED <<variant, slotvars, heapvars, op, pre, last_pass>>

\* Mutant: unlock() written before the return statement instead of a guard
\* object's destructor: a throw skips it.
Unlock_OnReturnOnly(t) ==
    IF op[t].M = "multi_threaded" /\ result[t] = "ok"
    THEN lockable' = [lockable EXCEPT ![op[t].T] = Unlocked]
    ELSE UNCHANGED lockable

\* ~multi_threaded() unlocks the mutex of T: on return and on unwinding alike.
Unlock(t) ==
    IF op[t].M = "multi_threaded"
    THEN lockable' = [lockable EXCEPT ![op[t].T] = Unlocked]
    ELSE UNCHANGED lockable

\* The caller has its outcome; the record of the call ends with the call.
guard_dtor(t) ==
    /\ ~aborted
    /\ pc[t] = "guard_dtor"
    /\ Unlock(t)
    /\ pc' = [pc EXCEPT ![t] = "idle"]
    /\ op' = [op EXCEPT ![t] = NoOp]
    /\ ref' = [ref EXCEPT ![t] = NULL]
    /\ pre' = [pre EXCEPT ![t] = EmptySlot]
    /\ result' = [result EXCEPT ![t] = "none"]
    /\ expect' = [expect EXCEPT ![t] = NoOutcome]
    /\ unwound' = (unwound \/ (op[t].M = "multi_threaded" /\ result[t] # "ok"))
    /\ UNCHANGED <<variant, slotvars, heapvars, last_pass,
                   n_ok, last_ret, last_via, abs>>

\* Mutant: the raw variant testing the pointer of its own policy instead of
\* the flag shared by all policies.
DetectAlreadyCreated_PerPolicy(T, M) ==
    IF variant = "raw" THEN instance_ptr[T][M] # NULL ELSE ptr[T] # NULL

\* Mutant: the test left out, so that create never refuses.
DetectAlreadyCreated_Never(T, M) == FALSE

\* detect_already_created() / verify_not_created()
DetectAlreadyCreated(T, M) ==
    IF variant = "raw" THEN created[T] # FALSE ELSE ptr[T] # NULL

create_check(t) ==
    /\ ~aborted
    /\ pc[t] = "create_check"
    /\ IF DetectAlreadyCreated(op[t].T, op[t].M)
       THEN /\ Finish(t, "already_created", NULL)
            /\ UNCHANGED last_pass
       ELSE /\ Goto(t, IF variant \in DynamicVariants THEN "create_set_enabled"
                       ELSE "create_new")
            /\ last_pass' = [last_pass EXCEPT ![op[t].T] = op[t].kind]
    /\ UNCHANGED <<variant, slotvars, lockable, heapvars, op, pre>>

\* Mutant: the plain create enabling get as well.
EnabledBy_Always(kind) == TRUE

\* get_enabled = false; (create)   get_enabled = true; (create_global)
EnabledBy(kind) == kind = "create_global"

create_set_enabled(t) ==
    /\ ~aborted
    /\ pc[t] = "create_set_enabled"
    /\ get_enabled' = [get_enabled EXCEPT ![op[t].T] = EnabledBy(op[t].kind)]
    /\ Goto(t, "create_new")
    /\ UNCHANGED <<variant, created, instance_ptr, ptr, lockable, heap, dtor_calls, type_of, made_by,
                   aborted, op, pre, last_pass>>

\* operator new hands out storage no live or formerly handed-out object has.
NewObj == CHOOSE x \in Objs : heap[x] = "unallocated" /\
                              \A y \in Objs : heap[y] = "unallocated" => x <= y

\* delete p, or a smart pointer releasing p.  Deleting NULL does nothing;
\* deleting a live object destructs it; deleting an object that was deleted
\* before is undefined: the destructor runs again on freed storage and the
\* allocator may or may not kill the process.
Delete(p) ==
    IF p = NULL
    THEN UNCHANGED <<heapvars>>
    ELSE /\ heap' = [heap EXCEPT ![p] = "deleted"]
         /\ dtor_calls' = [dtor_calls EXCEPT ![p] = IF @ < 2 THEN @ + 1 ELSE @]
         /\ UNCHANGED <<type_of, made_by>>
         /\ IF heap[p] = "live" THEN UNCHANGED aborted ELSE aborted' \in BOOLEAN

\* instance_ptr = new T(args);         (raw)
\* ptr.reset(new T(args));             (scoped_ptr / unique_ptr)
\* A constructor that throws leaves the pointer as it was.
create_new(t) ==
    /\ ~aborted
    /\ pc[t] = "create_new"
    /\ IF op[t].throws
       THEN /\ Finish(t, "ctor_exception", NULL)
            /\ UNCHANGED <<slotvars, heapvars>>
       ELSE LET x == NewObj IN
            IF variant = "raw"
            THEN /\ instance_ptr' = [instance_ptr EXCEPT ![op[t].T][op[t].M] = x]
                 /\ heap' = [heap EXCEPT ![x] = "live"]
                 /\ type_of' = [type_of EXCEPT ![x] = op[t].T]
                 /\ made_by' = [made_by EXCEPT ![x] = op[t].kind]
                 /\ Goto(t, "create_set_created")
                 /\ UNCHANGED <<created, ptr, get_enabled, dtor_calls, aborted>>
            ELSE /\ ptr' = [ptr EXCEPT ![op[t].T] = x]
                 /\ type_of' = [type_of EXCEPT ![x] = op[t].T]
                 /\ made_by' = [made_by EXCEPT ![x] = op[t].kind]
                 /\ IF ptr[op[t].T] = NULL
                    THEN /\ heap' = [heap EXCEPT ![x] = "live"]
                         /\ UNCHANGED <<dtor_calls, aborted>>
                    ELSE /\ heap' = [heap EXCEPT ![x] = "live",
                                                 ![ptr[op[t].T]] = "deleted"]
                         /\ dtor_calls' = [dtor_calls EXCEPT ![ptr[op[t].T]] =
                                               IF @ < 2 THEN @ + 1 ELSE @]
                         /\ IF heap[ptr[op[t].T]] = "live"
                            THEN UNCHANGED aborted ELSE aborted' \in BOOLEAN
                 /\ Goto(t, "create_return")
                 /\ UNCHANGED <<created, instance_ptr, get_enabled>>
    /\ UNCHANGED <<variant, lockable, op, pre, last_pass>>

\* singularity_state<T>::created = true;
create_set_created(t) ==
    /\ ~aborted
    /\ pc[t] = "create_set_created"
    /\ created' = [created EXCEPT ![op[t].T] = TRUE]
    /\ Goto(t, "create_return")
    /\ UNCHANGED <<variant, instance_ptr, ptr, get_enabled, lockable, heap,
                   dtor_calls, type_of, made_by, aborted, op, pre, last_pass>>

\* return *instance_ptr;   return *ptr;
create_return(t) ==
    /\ ~aborted
    /\ pc[t] = "create_return"
    /\ Finish(t, "ok", Held(variant, Slot(op[t].T), op[t].M))
    /\ UNCHANGED <<variant, slotvars, lockable, heapvars, op, pre,
                   last_pass>>

\* Mutant: the raw variant without the test of the created flag.
DetectAlreadyDestroyed_PtrOnly(T) ==
    IF variant = "raw" THEN FALSE ELSE ptr[T] = NULL

\* if (created != true) throw singularity_already_destroyed();      (raw)
\* if (ptr.get() == 0)  throw singularity_already_destroyed();      (others)
DetectAlreadyDestroyed(T) ==
    IF variant = "raw" THEN created[T] # TRUE ELSE ptr[T] = NULL

destroy_check(t) ==
    /\ ~aborted
    /\ pc[t] = "destroy_check"
    /\ IF DetectAlreadyDestroyed(op[t].T)
       THEN Finish(t, "already_destroyed", NULL)
       ELSE Goto(t, IF variant = "raw" THEN "destroy_check_ptr"
                    ELSE IF variant = "dyn03" THEN "destroy_reset"
                    ELSE "destroy_delete")
    /\ UNCHANGED <<variant, slotvars, lockable, heapvars, op, pre,
                   last_pass>>

\* Mutant: destroy without the test of its own policy's pointer.
DetectIncorrectThreading_Never(T, M) == FALSE

\* if (instance_ptr == NULL) throw singularity_destroy_on_incorrect_threading();
DetectIncorrectThreading(T, M) == instance_ptr[T][M] = NULL

destroy_check_ptr(t) ==
    /\ ~aborted
    /\ pc[t] = "destroy_check_ptr"
    /\ IF DetectIncorrectThreading(op[t].T, op[t].M)
       THEN Finish(t, "destroy_on_incorrect_threading", NULL)
       ELSE Goto(t, "destroy_delete")
    /\ UNCHANGED <<variant, slotvars, lockable, heapvars, op, pre,
                   last_pass>>

\* delete instance_ptr;   (raw)        delete ptr.get();   (scoped, dyn11)
destroy_delete(t) ==
    /\ ~aborted
    /\ pc[t] = "destroy_delete"
    /\ Delete(Held(variant, Slot(op[t].T), op[t].M))
    /\ Goto(t, IF variant = "raw" THEN "destroy_clear_ptr" ELSE "destroy_reset")
    /\ UNCHANGED <<variant, slotvars, lockable, op, pre, last_pass>>

\* instance_ptr = NULL;
destroy_clear_ptr(t) ==
    /\ ~aborted
    /\ pc[t] = "destroy_clear_ptr"
    /\ instance_ptr' = [instance_ptr EXCEPT ![op[t].T][op[t].M] = NULL]
    /\ Goto(t, "destroy_clear_created")
    /\ UNCHANGED <<variant, created, ptr, get_enabled, lockable, heap, dtor_calls, type_of, made_by,
                   aborted, op, pre, last_pass>>

\* singularity_state<T>::created = false;
destroy_clear_created(t) ==
    /\ ~aborted
    /\ pc[t] = "destroy_clear_created"
    /\ created' = [created EXCEPT ![op[t].T] = FALSE]
    /\ Finish(t, "ok", NULL)
    /\ UNCHANGED <<variant, instance_ptr, ptr, get_enabled, lockable, heap,
                   dtor_calls, type_of, made_by, aborted, op, pre, last_pass>>

\* Mutant: destroy as the specification words it, get_enabled reset to false.
destroy_reset_ClearsEnabled(t) ==
    /\ ~aborted
    /\ pc[t] = "destroy_reset"
    /\ ptr' = [ptr EXCEPT ![op[t].T] = NULL]
    /\ get_enabled' = [get_enabled EXCEPT ![op[t].T] = FALSE]
    /\ Delete(ptr[op[t].T])
    /\ Finish(t, "ok", NULL)
    /\ UNCHANGED <<variant, created, instance_ptr, lockable, op, pre, last_pass>>

\* ptr.reset();   the smart pointer becomes null and deletes what it held.
destroy_reset(t) ==
    /\ ~aborted
    /\ pc[t] = "destroy_reset"
    /\ ptr' = [ptr EXCEPT ![op[t].T] = NULL]
    /\ Delete(ptr[op[t].T])
    /\ Finish(t, "ok", NULL)
    /\ UNCHANGED <<variant, created, instance_ptr, get_enabled, lockable, op, pre,
                   last_pass>>

\* Mutant: get without the test of get_enabled.
DetectNoGlobalAccess_Never(T) == FALSE

\* get / get_global: get_enabled == false
DetectNoGlobalAccess(T) == get_enabled[T] = FALSE

\* if (get_enabled == false) throw singularity_no_global_access();
get_check_enabled(t) ==
    /\ ~aborted
    /\ pc[t] = "get_check_enabled"
    /\ IF DetectNoGlobalAccess(op[t].T)
       THEN Finish(t, "no_global_access", NULL)
       ELSE Goto(t, "get_check")
    /\ UNCHANGED <<variant, slotvars, lockable, heapvars, op, pre,
                   last_pass>>

\* Mutant: get without the test of the pointer.
DetectNotCreated_Never(T, M) == FALSE

\* Mutant: get that tests the created flag of T instead of the pointer of
\* its own policy.
DetectNotCreated_ByState(T, M) == ~IsLive(variant, Slot(T))

\* get: instance_ptr == NULL   (ptr.get() == 0)
DetectNotCreated(T, M) == Held(variant, Slot(T), M) = NULL

\* if (instance_ptr == NULL) throw singularity_not_created();
get_check(t) ==
    /\ ~aborted
    /\ pc[t] = "get_check"
    /\ IF DetectNotCreated(op[t].T, op[t].M)
       THEN Finish(t, "not_created", NULL)
       ELSE Goto(t, "get_return")
    /\ UNCHANGED <<variant, slotvars, lockable, heapvars, op, pre,
                   last_pass>>

\* Mutant: get hands the instance over and empties the pointer it read.
get_return_Releasing(t) ==
    /\ ~aborted
    /\ pc[t] = "get_return"
    /\ Finish(t, "ok", Held(variant, Slot(op[t].T), op[t].M))
    /\ IF variant = "raw"
       THEN /\ instance_ptr' = [instance_ptr EXCEPT ![op[t].T][op[t].M] = NULL]
            /\ UNCHANGED ptr
       ELSE /\ ptr' = [ptr EXCEPT ![op[t].T] = NULL]
            /\ UNCHANGED instance_ptr
    /\ UNCHANGED <<variant, created, get_enabled, lockable, heapvars, op, pre, last_pass>>

\* return *instance_ptr;   return *ptr;
get_return(t) ==
    /\ ~aborted
    /\ pc[t] = "get_return"
    /\ Finish(t, "ok", Held(variant, Slot(op[t].T), op[t].M))
    /\ UNCHANGED <<variant, slotvars, lockable, heapvars, op, pre,
                   last_pass>>

\* One statement of the handler thread t is in.
Step(t) ==
    \/ guard_ctor(t)
    \/ create_check(t)
    \/ create_set_enabled(t)
    \/ create_new(t)
    \/ create_set_created(t)
    \/ create_return(t)
    \/ destroy_check(t)
    \/ destroy_check_ptr(t)
    \/ destroy_delete(t)
    \/ destroy_clear_ptr(t)
    \/ destroy_clear_created(t)
    \/ destroy_reset(t)
    \/ get_check_enabled(t)
    \/ get_check(t)
    \/ get_return(t)
    \/ guard_dtor(t)

AllIdle == \A t \in Threads : pc[t] = "idle"

\* ------------------------------------------------------- specifications
\* Spec: calls made one after another, by any thread, through any
\* instantiation (any T, M, G, constructor arguments).
CallSeq(t) ==
    /\ AllIdle
    /\ Call(t, Calls(variant, Types, Policies))
    /\ pre' = [pre EXCEPT ![t] = Slot(op'[t].T)]

Next == \E t \in Threads : CallSeq(t) \/ Step(t)

Spec == Init /\ [][Next]_vars

\* SpecMT: threads call concurrently on one managed type through
\* multi_threaded instantiations; a single_threaded instantiation is used only
\* while no other call runs, as its policy requires.
NoSingleThreadedCall ==
    \A t \in Threads : pc[t] # "idle" => op[t].M = "multi_threaded"

\* The access policy takes no part in the handlers' bodies; here every
\* instantiation of a static variant has get().
WithGet(v, Ts, Ms) ==
    {o \in Calls(v, Ts, Ms) : v \in StaticVariants => o.G = "global_access"}

CallMT(t) ==
    /\ NoSingleThreadedCall
    /\ Call(t, WithGet(variant, OneType, {"multi_threaded"}))
    /\ UNCHANGED pre

CallST(t) ==
    /\ AllIdle
    /\ Call(t, WithGet(variant, OneType, {"single_threaded"}))
    /\ UNCHANGED pre

NextMT == \E t \in Threads : CallMT(t) \/ CallST(t) \/ Step(t)

SpecMT == Init /\ [][NextMT]_vars

\* SpecCreate: threads call create (any overload, any access policy) on one
\* managed type through multi_threaded, as often as they like and at the same
\* time; the constructor completes; nobody calls destroy.
CallCreate(t) ==
    /\ Call(t, {o \in Calls(variant, OneType, {"multi_threaded"}) :
                  o.kind \in CreateKinds /\ ~o.throws})
    /\ UNCHANGED pre

NextCreate ==
    \E t \in Threads :
        \/ CallCreate(t)
        \/ guard_ctor(t)
        \/ create_check(t)
        \/ create_set_enabled(t)
        \/ create_new(t)
        \/ create_set_created(t)
        \/ create_return(t)
        \/ guard_dtor(t)

SpecCreate == Init /\ [][NextCreate]_vars

\* SpecTypes: threads call create and destroy concurrently on two managed
\* types, every call through a multi_threaded instantiation; constructors
\* complete.
CallTypes(t) ==
    /\ Call(t, {o \in Calls(variant, Types, {"multi_threaded"}) :
                  /\ o.kind \in {"create", "destroy"}
                  /\ o.G = "local_access"
                  /\ ~o.throws})
    /\ UNCHANGED pre

NextTypes ==
    \E t \in Threads :
        \/ CallTypes(t)
        \/ guard_ctor(t)
        \/ create_check(t)
        \/ create_set_enabled(t)
        \/ create_new(t)
        \/ create_set_created(t)
        \/ create_return(t)
        \/ destroy_check(t)
        \/ destroy_check_ptr(t)
        \/ destroy_delete(t)
        \/ destroy_clear_ptr(t)
        \/ destroy_clear_created(t)
        \/ destroy_reset(t)
        \/ guard_dtor(t)

SpecTypes == Init /\ [][NextTypes]_vars

\* SpecRace: threads call create on one managed type through single_threaded
\* at the same time, against the policy's requirement; constructors complete.
\* The statements of the calls interleave.
CallRace(t) ==
    /\ Call(t, {o \in Calls(variant, OneType, {"single_threaded"}) :
                  o.kind \in CreateKinds /\ ~o.throws})
    /\ UNCHANGED pre

NextRace ==
    \E t \in Threads :
        \/ CallRace(t)
        \/ guard_ctor(t)
        \/ create_check(t)
        \/ create_set_enabled(t)
        \/ create_new(t)
        \/ create_set_created(t)
        \/ create_return(t)
        \/ guard_dtor(t)

SpecRace == Init /\ [][NextRace]_vars

\* SpecMTFair: SpecMT with every statement of a running call eventually
\* executed (constructors and destructors terminate) and a fair mutex: a
\* thread waiting in lock() while the mutex is free again and again gets it.
Fairness ==
    \A t \in Threads : WF_vars(Step(t)) /\ SF_vars(guard_ctor(t))

SpecMTFair == SpecMT /\ Fairness

\* SpecMixed: threads call create and destroy on one managed type at the same
\* time; the first thread's code uses single_threaded and multi_threaded
\* instantiations, the other threads' code multi_threaded ones; constructors
\* complete.  The statements of the calls interleave.
PoliciesOf(t) == IF t = 1 THEN Policies ELSE {"multi_threaded"}

CallMixed(t) ==
    /\ Call(t, {o \in Calls(variant, OneType, PoliciesOf(t)) :
                  /\ o.kind \in {"create", "destroy"}
                  /\ o.G = "local_access"
                  /\ ~o.throws})
    /\ UNCHANGED pre

NextMixed ==
    \E t \in Threads :
        \/ CallMixed(t)
        \/ guard_ctor(t)
        \/ create_check(t)
        \/ create_set_enabled(t)
        \/ create_new(t)
        \/ create_set_created(t)
        \/ create_return(t)
        \/ destroy_check(t)
        \/ destroy_check_ptr(t)
        \/ destroy_delete(t)
        \/ destroy_clear_ptr(t)
        \/ destroy_clear_created(t)
        \/ destroy_reset(t)
        \/ guard_dtor(t)

SpecMixed == Init /\ [][NextMixed]_vars

\* SpecReturn: SpecMT's multi_threaded calls with the end of a call in two
\* steps, as the thread executes it: the guard's destructor unlocks the mutex
\* while the function is still returning, and only then the caller has the
\* reference (or the exception) in hand.  Constructors complete.
\* ~multi_threaded(): lockable.unlock();
guard_unlock(t) ==
    /\ ~aborted
    /\ pc[t] = "guard_dtor"
    /\ Unlock(t)
    /\ pc' = [pc EXCEPT ![t] = "returning"]
    /\ unwound' = (unwound \/ (op[t].M = "multi_threaded" /\ result[t] # "ok"))
    /\ UNCHANGED <<variant, slotvars, heapvars, op, pre, last_pass, result,
                   ref, abs, expect, n_ok, last_ret, last_via>>

\* The function has returned: the caller continues with what it was given.
caller_resumes(t) ==
    /\ ~aborted
    /\ pc[t] = "returning"
    /\ pc' = [pc EXCEPT ![t] = "idle"]
    /\ op' = [op EXCEPT ![t] = NoOp]
    /\ ref' = [ref EXCEPT ![t] = NULL]
    /\ pre' = [pre EXCEPT ![t] = EmptySlot]
    /\ result' = [result EXCEPT ![t] = "none"]
    /\ expect' = [expect EXCEPT ![t] = NoOutcome]
    /\ UNCHANGED <<variant, slotvars, lockable, heapvars, last_pass, n_ok,
                   last_ret, last_via, unwound, abs>>

CallReturn(t) ==
    /\ Call(t, {o \in WithGet(variant, OneType, {"multi_threaded"}) :
                  ~o.throws})
    /\ UNCHANGED pre

NextReturn ==
    \E t \in Threads :
        \/ CallReturn(t)
        \/ guard_ctor(t)
        \/ create_check(t)
        \/ create_set_enabled(t)
        \/ create_new(t)
        \/ create_set_created(t)
        \/ create_return(t)
        \/ destroy_check(t)
        \/ destroy_check_ptr(t)
        \/ destroy_delete(t)
        \/ destroy_clear_ptr(t)
        \/ destroy_clear_created(t)
        \/ destroy_reset(t)
        \/ get_check_enabled(t)
        \/ get_check(t)
        \/ get_return(t)
        \/ guard_unlock(t)
        \/ caller_resumes(t)

SpecReturn == Init /\ [][NextReturn]_vars

\* ------------------------------------------------------ singularity_base
\* A class T made a singularity by deriving from singularity_base<T, M>: the
\* base class constructor registers the object, the base class destructor
\* unregisters it.  The program constructs and destructs objects of T itself
\* (new T(...), delete p), one statement after another.  A type has one base
\* class, hence one policy.
BasePolicy(T) == IF T = "T1" THEN "single_threaded" ELSE "multi_threaded"

\* op.throws: the constructor of T throws after its base class is constructed.
BaseOps ==
    {o \in [kind : {"construct", "destruct"}, T : Types, M : Policies,
            G : {"local_access"}, throws : BOOLEAN] :
        /\ o.M = BasePolicy(o.T)
        /\ (o.throws => o.kind = "construct")}

InitBase == variant = "base" /\ Start

basevars == <<variant, instance_ptr, ptr, get_enabled, type_of, made_by, dtor_calls,
              aborted, last_pass, n_ok, last_ret, last_via, unwound, abs, expect>>

\* new T(...) or delete p is reached; p is kept in ref.
base_call(t) ==
    /\ AllIdle
    /\ \E o \in BaseOps :
        /\ op' = [op EXCEPT ![t] = o]
        /\ pre' = [pre EXCEPT ![t] = Slot(o.T)]
        /\ IF o.kind = "construct"
           THEN /\ HeapLeft
                /\ pc' = [pc EXCEPT ![t] = "base_ctor"]
                /\ UNCHANGED ref
           ELSE /\ \E p \in LiveObjs(o.T) : ref' = [ref EXCEPT ![t] = p]
                /\ pc' = [pc EXCEPT ![t] = "base_dtor"]
    /\ UNCHANGED <<basevars, created, lockable, heap, result>>

\* singularity_base(): M<T> guard;
base_ctor(t) ==
    /\ pc[t] = "base_ctor"
    /\ Lock(op[t].T, op[t].M, t)
    /\ pc' = [pc EXCEPT ![t] = "base_check"]
    /\ UNCHANGED <<basevars, created, heap, op, pre, ref, result>>

\* Mutant: a constructor that registers without looking.
BaseAlreadyCreated_Never(T) == FALSE

\* singularity_base(): created != false
BaseAlreadyCreated(T) == created[T] # FALSE

\* if (created != false) throw singularity_already_created();
base_check(t) ==
    /\ pc[t] = "base_check"
    /\ IF BaseAlreadyCreated(op[t].T)
       THEN /\ result' = [result EXCEPT ![t] = "already_created"]
            /\ pc' = [pc EXCEPT ![t] = "base_ctor_exit"]
       ELSE /\ pc' = [pc EXCEPT ![t] = "base_set"]
            /\ UNCHANGED result
    /\ UNCHANGED <<basevars, created, lockable, heap, op, pre, ref>>

\* created = true;
base_set(t) ==
    /\ pc[t] = "base_set"
    /\ created' = [created EXCEPT ![op[t].T] = TRUE]
    /\ pc' = [pc EXCEPT ![t] = "base_ctor_exit"]
    /\ UNCHANGED <<basevars, lockable, heap, op, pre, ref, result>>

\* The guard of singularity_base() is destructed.  After a throw the new
\* expression frees the storage: no object.  Otherwise the rest of T is
\* constructed: either that completes and the object lives, or it throws and
\* the base class is destructed again.
base_ctor_exit(t) ==
    /\ pc[t] = "base_ctor_exit"
    /\ Unlock(t)
    /\ IF result[t] = "already_created"
       THEN /\ pc' = [pc EXCEPT ![t] = "base_done"]
            /\ UNCHANGED <<heap, type_of, ref, result>>
       ELSE IF op[t].throws
       THEN /\ pc' = [pc EXCEPT ![t] = "base_dtor"]
            /\ UNCHANGED <<heap, type_of, ref, result>>
       ELSE /\ heap' = [heap EXCEPT ![NewObj] = "live"]
            /\ type_of' = [type_of EXCEPT ![NewObj] = op[t].T]
            /\ ref' = [ref EXCEPT ![t] = NewObj]
            /\ result' = [result EXCEPT ![t] = "ok"]
            /\ pc' = [pc EXCEPT ![t] = "base_done"]
    /\ UNCHANGED <<variant, instance_ptr, ptr, get_enabled, made_by, dtor_calls, aborted,
                   last_pass, n_ok, last_ret, last_via, unwound, abs, expect,
                   created, op, pre>>

\* ~singularity_base(): M<T> guard;
base_dtor(t) ==
    /\ pc[t] = "base_dtor"
    /\ Lock(op[t].T, op[t].M, t)
    /\ pc' = [pc EXCEPT ![t] = "base_clear"]
    /\ UNCHANGED <<basevars, created, heap, op, pre, ref, result>>

\* created = false;
base_clear(t) ==
    /\ pc[t] = "base_clear"
    /\ created' = [created EXCEPT ![op[t].T] = FALSE]
    /\ pc' = [pc EXCEPT ![t] = "base_dtor_exit"]
    /\ UNCHANGED <<basevars, lockable, heap, op, pre, ref, result>>

\* The guard of ~singularity_base() is destructed; delete p frees the object,
\* a constructor that threw lets its exception go on to the caller.
base_dtor_exit(t) ==
    /\ pc[t] = "base_dtor_exit"
    /\ Unlock(t)
    /\ pc' = [pc EXCEPT ![t] = "base_done"]
    /\ IF op[t].kind = "destruct"
       THEN /\ heap' = [heap EXCEPT ![ref[t]] = "deleted"]
            /\ result' = [result EXCEPT ![t] = "ok"]
       ELSE /\ result' = [result EXCEPT ![t] = "ctor_exception"]
            /\ UNCHANGED heap
    /\ UNCHANGED <<basevars, created, op, pre, ref>>

\* The statement is over; its record ends with it.
base_done(t) ==
    /\ pc[t] = "base_done"
    /\ pc' = [pc EXCEPT ![t] = "idle"]
    /\ op' = [op EXCEPT ![t] = NoOp]
    /\ ref' = [ref EXCEPT ![t] = NULL]
    /\ pre' = [pre EXCEPT ![t] = EmptySlot]
    /\ result' = [result EXCEPT ![t] = "none"]
    /\ UNCHANGED <<basevars, created, lockable, heap>>

NextBase ==
    \E t \in Threads :
        \/ base_call(t)
        \/ base_ctor(t)
        \/ base_check(t)
        \/ base_set(t)
        \/ base_ctor_exit(t)
        \/ base_dtor(t)
        \/ base_clear(t)
        \/ base_dtor_exit(t)
        \/ base_done(t)

SpecBase == InitBase /\ [][NextBase]_vars

\* ----------------------------------------------------------------- claims
\* The body of thread t's call has ended (by return or throw): its outcome is
\* in result[t], and only the guard's destructor is left to run.
Ended(t) == pc[t] = "guard_dtor"

Running(t, kinds) == pc[t] # "idle" /\ op[t].kind \in kinds

\* The objects a slot points to.
Instances(v, s) ==
    IF v = "raw" THEN {s.instance_ptr[M] : M \in Policies} \ {NULL}
    ELSE {s.ptr} \ {NULL}

Alive(v, s) == \A o \in Instances(v, s) : heap[o] = "live"

\* C1: calls made one after another, through any mix of instantiations
\* (policy M, access policy G, constructor arguments), never leave more than
\* one live instance of a managed type T.
C1_AtMostOneInstance ==
    \A T \in Types : Cardinality(LiveObjs(T)) <= 1

\* C1 witness: in the raw variant a create through one policy has just been
\* refused while the live instance of T is held by the other policy's pointer.
C1_Witness ==
    \E t \in Threads :
        /\ variant = "raw"
        /\ Ended(t) /\ op[t].kind = "create" /\ result[t] = "already_created"
        /\ instance_ptr[op[t].T][op[t].M] = NULL
        /\ Cardinality(LiveObjs(op[t].T)) = 1

\* C2: a successful create leaves the slot Live; a create call (any overload)
\* begun while the slot is Live ends with already_created and at no point
\* changes the slot or tears down the held instance.
C2_CreateOnLiveFails ==
    \A t \in Threads : Running(t, CreateKinds) =>
        /\ (Ended(t) /\ result[t] = "ok") =>
               /\ IsLive(variant, Slot(op[t].T))
               /\ ref[t] \in Instances(variant, Slot(op[t].T))
               /\ heap[ref[t]] = "live"
        /\ IsLive(variant, pre[t]) =>
               /\ Slot(op[t].T) = pre[t]
               /\ Alive(variant, pre[t])
               /\ pc[t] \in {"guard_ctor", "create_check", "guard_dtor"}
               /\ Ended(t) => result[t] = "already_created" /\ ref[t] = NULL

\* C2 witness: a create_global / create with other arguments has been refused
\* on a Live slot.
C2_Witness ==
    \E t \in Threads :
        /\ Ended(t) /\ op[t].kind \in CreateKinds
        /\ IsLive(variant, pre[t])
        /\ result[t] = "already_created"
        /\ Slot(op[t].T) = pre[t]

\* C3: a successful destroy leaves the slot Empty; a destroy call begun while
\* the slot is Empty (never created, or destroyed before) ends with
\* already_destroyed and at no point changes the slot.
C3_DestroyOnEmptyFails ==
    \A t \in Threads : Running(t, {"destroy"}) =>
        /\ (Ended(t) /\ result[t] = "ok") =>
               /\ ~IsLive(variant, Slot(op[t].T))
               /\ Instances(variant, Slot(op[t].T)) = {}
        /\ ~IsLive(variant, pre[t]) =>
               /\ Slot(op[t].T) = pre[t]
               /\ pc[t] \in {"guard_ctor", "destroy_check", "guard_dtor"}
               /\ Ended(t) => result[t] = "already_destroyed"

\* C3 witness: destroy has been refused on a slot that an earlier destroy
\* emptied.
C3_Witness ==
    \E t \in Threads :
        /\ Ended(t) /\ op[t].kind = "destroy"
        /\ ~IsLive(variant, pre[t])
        /\ result[t] = "already_destroyed"
        /\ \E o \in Objs : heap[o] = "deleted" /\ type_of[o] = op[t].T

\* C4: under multi_threaded, when threads call create on an Empty T at the same
\* time and nobody destroys, exactly one call succeeds, every other call ends
\* with already_created, and there are never two live instances.
C4_OneCreateWins ==
    \A T \in OneType :
        /\ n_ok[T] <= 1
        /\ Cardinality(LiveObjs(T)) <= 1
        /\ \A t \in Threads : (Ended(t) /\ op[t].T = T) =>
               /\ result[t] \in {"ok", "already_created"}
               /\ n_ok[T] = 1
               /\ Cardinality(LiveObjs(T)) = 1

\* C4 witness: one create has been refused while another thread's create is
\* still waiting for the lock, after both were called on the Empty slot.
C4_Witness ==
    \E t, u \in Threads :
        /\ t # u
        /\ Ended(t) /\ result[t] = "already_created"
        /\ pc[u] = "guard_ctor" /\ op[u].T = op[t].T
        /\ n_ok[op[t].T] = 1
        /\ Cardinality({o \in Objs : type_of[o] = op[t].T}) = 1

\* Thread t is inside the body of an operation (between the guard's
\* constructor and its destructor).
InBody(t) == pc[t] \notin {"idle", "guard_ctor", "guard_dtor"}

Using(t, T) == pc[t] # "idle" /\ op[t].T = T

\* C5: under multi_threaded the lock of T is released on every exit path, by
\* return or by any exception: whenever no thread is executing an operation
\* on T, the lock of T is free.
C5_LockReleased ==
    \A T \in Types :
        (\A t \in Threads : ~Using(t, T)) => lockable[T] = Unlocked

\* C5 witness: every thread is back from its call, at least one multi_threaded
\* call left by an exception, and the lock is free.
C5_Witness ==
    /\ AllIdle
    /\ unwound
    /\ lockable["T1"] = Unlocked
    /\ IsLive(variant, Slot("T1"))

\* C6: under multi_threaded the state check, the mutation and the read of the
\* pointer all run while the calling thread holds the lock of T, and at most
\* one thread is between the check and the end of the mutation.
C6_BodyUnderLock ==
    /\ \A t \in Threads :
           (pc[t] \notin {"idle", "guard_ctor"} /\ op[t].M = "multi_threaded")
               => lockable[op[t].T] = t
    /\ \A t, u \in Threads :
           (/\ t # u
            /\ pc[t] \notin {"idle", "guard_ctor"}
            /\ pc[u] \notin {"idle", "guard_ctor"}
            /\ op[t].M = "multi_threaded" /\ op[u].M = "multi_threaded")
               => op[t].T # op[u].T

\* C6 witness: one thread is constructing the instance while another thread's
\* call on the same T waits in the guard's constructor.
C6_Witness ==
    \E t, u \in Threads :
        /\ t # u
        /\ pc[t] = "create_new" /\ op[t].M = "multi_threaded"
        /\ pc[u] = "guard_ctor" /\ op[u].M = "multi_threaded"
        /\ op[u].T = op[t].T
        /\ lockable[op[t].T] = t

\* C7: under multi_threaded every history is linearizable: each call returns
\* what the sequential operation returns when applied, at the call's last step
\* under the lock, to the slot left by the calls linearized before it, and the
\* slot between calls is the one those sequential operations produce.
C7_Linearizable ==
    /\ \A t \in Threads : Ended(t) =>
           /\ result[t] = expect[t].res
           /\ ref[t] = expect[t].ref
    /\ \A T \in Types :
           (\A t \in Threads : ~(InBody(t) /\ op[t].T = T)) => abs[T] = Slot(T)

\* C7 witness: a get has returned the instance while a destroy called at the
\* same time still waits for the lock.
C7_Witness ==
    \E t, u \in Threads :
        /\ t # u
        /\ Ended(t) /\ op[t].kind = "get"
        /\ result[t] = "ok" /\ ref[t] # NULL
        /\ pc[u] = "guard_ctor" /\ op[u].kind = "destroy" /\ op[u].T = op[t].T
        /\ op[t].M = "multi_threaded" /\ op[u].M = "multi_threaded"

\* C8: create on an Empty slot always succeeds and makes it Live, and destroy
\* on a Live slot through the policy that holds the instance always succeeds
\* and makes it Empty, so that create; destroy can be repeated without error
\* (the constructor of T completing normally).
C8_CreateDestroyCycle ==
    \A t \in Threads :
        /\ (Running(t, CreateKinds) /\ ~op[t].throws /\ ~IsLive(variant, pre[t])) =>
               /\ ~aborted
               /\ Ended(t) => result[t] = "ok" /\ IsLive(variant, Slot(op[t].T))
        /\ (/\ Running(t, {"destroy"})
            /\ IsLive(variant, pre[t])
            /\ Held(variant, pre[t], op[t].M) # NULL) =>
               /\ ~aborted
               /\ Ended(t) => result[t] = "ok" /\ ~IsLive(variant, Slot(op[t].T))

\* C9: in the raw-pointer variants, between operations, created is true iff
\* exactly one of the per-policy pointers instance_ptr is non-null, and false
\* iff all of them are null.
C9_CreatedIffOnePointer ==
    (variant = "raw" /\ AllIdle) =>
        \A T \in Types :
            LET held == {M \in Policies : instance_ptr[T][M] # NULL}
            IN  /\ created[T] <=> Cardinality(held) = 1
                /\ ~created[T] <=> held = {}

\* C9 witness: between operations, T1 is Live in the raw variant, held by the
\* multi_threaded pointer alone, after an earlier instance of T1 was destroyed.
C9_Witness ==
    /\ variant = "raw" /\ AllIdle
    /\ created["T1"]
    /\ instance_ptr["T1"]["multi_threaded"] # NULL
    /\ instance_ptr["T1"]["single_threaded"] = NULL
    /\ \E o \in Objs : heap[o] = "deleted" /\ type_of[o] = "T1"

LastOk(T) == IF last_ret[T] = NULL THEN "none" ELSE made_by[last_ret[T]]

C14_StaticGet ==
    \A t \in Threads :
        (variant \in StaticVariants /\ Ended(t) /\ op[t].kind = "get") =>
            /\ op[t].G = "global_access"
            /\ ~IsLive(variant, pre[t]) => result[t] = "not_created" /\ ref[t] = NULL
            /\ Held(variant, pre[t], op[t].M) # NULL =>
                   /\ result[t] = "ok"
                   /\ ref[t] = Held(variant, pre[t], op[t].M)
                   /\ heap[ref[t]] = "live"

\* C14 witness: get has thrown singularity_not_created on a slot emptied by a
\* destroy.
C14_Witness ==
    \E t \in Threads :
        /\ variant \in StaticVariants
        /\ Ended(t) /\ op[t].kind = "get"
        /\ ~IsLive(variant, pre[t])
        /\ last_ret[op[t].T] # NULL
        /\ result[t] = "not_created"

\* C15: in the dynamic-access variants, when the slot is Live and the most
\* recent successful create was the plain create, get fails with
\* singularity_no_global_access and returns no reference, even if an earlier
\* instance of the type was made with global access.
C15_PlainCreateNoAccess ==
    \A t \in Threads :
        (/\ variant \in DynamicVariants
         /\ Ended(t) /\ op[t].kind = "get"
         /\ IsLive(variant, pre[t])
         /\ LastOk(op[t].T) = "create") =>
            /\ result[t] = "no_global_access"
            /\ ref[t] = NULL

\* C15 witness: get has been refused on an instance made by the plain create
\* after an instance made by create_global was destroyed.
C15_Witness ==
    \E t \in Threads :
        /\ variant \in DynamicVariants
        /\ Ended(t) /\ op[t].kind = "get"
        /\ IsLive(variant, pre[t])
        /\ LastOk(op[t].T) = "create"
        /\ \E o \in Objs : /\ type_of[o] = op[t].T
                           /\ made_by[o] = "create_global"
                           /\ heap[o] = "deleted"
        /\ result[t] = "no_global_access"

\* C16: whenever get succeeds it returns the very instance the most recent
\* successful create returned (create_global in the dynamic variants), alive;
\* so repeated gets with no destroy between them return the same instance.
C16_GetReturnsCreated ==
    \A t \in Threads :
        (Ended(t) /\ op[t].kind = "get" /\ result[t] = "ok") =>
            /\ ref[t] # NULL
            /\ ref[t] = last_ret[op[t].T]
            /\ heap[ref[t]] = "live"
            /\ variant \in DynamicVariants => made_by[ref[t]] = "create_global"

\* C16 witness: get has returned the second instance made for the type, the
\* first one having been destroyed.
C16_Witness ==
    \E t \in Threads :
        /\ Ended(t) /\ op[t].kind = "get" /\ result[t] = "ok"
        /\ ref[t] = last_ret[op[t].T]
        /\ \E o \in Objs : o # ref[t] /\ type_of[o] = op[t].T /\ heap[o] = "deleted"

\* The latest instance of T was made by create_global / create_enable_get and
\* has been destroyed, and no create has got past its check since.
GlobalInstanceDestroyed(T) ==
    /\ last_ret[T] # NULL
    /\ made_by[last_ret[T]] = "create_global"
    /\ heap[last_ret[T]] = "deleted"
    /\ ptr[T] = NULL
    /\ last_pass[T] = "create_global"

\* C17: in the dynamic-access variants, after create_global followed by a
\* successful destroy, get fails with singularity_not_created, not with
\* singularity_no_global_access.
C17_GetAfterDestroyNotCreated ==
    \A t \in Threads :
        (/\ variant \in DynamicVariants
         /\ Ended(t) /\ op[t].kind = "get"
         /\ GlobalInstanceDestroyed(op[t].T)) =>
            /\ result[t] = "not_created"
            /\ ref[t] = NULL

\* C17 witness: get has thrown singularity_not_created after create_global and
\* destroy.
C17_Witness ==
    \E t \in Threads :
        /\ variant \in DynamicVariants
        /\ Ended(t) /\ op[t].kind = "get"
        /\ GlobalInstanceDestroyed(op[t].T)
        /\ get_enabled[op[t].T]
        /\ result[t] = "not_created"

\* Thread t runs a destroy on T that has passed its checks: the statements
\* left are the ones that tear the instance down and empty the slot.
Destroying(t, T) ==
    /\ op[t].kind = "destroy" /\ op[t].T = T
    /\ pc[t] \in {"destroy_delete", "destroy_clear_ptr", "destroy_clear_created",
                  "destroy_reset"}

\* C18: the instance held by a Live slot is never replaced or torn down by
\* anything except a successful destroy: every step that ends the instance's
\* life or takes it out of the slot is a step of a destroy that has passed
\* its checks, so refused creates, gets and refused destroys leave it in
\* place, alive.
C18_OnlyDestroyRemoves ==
    [][\A T \in Types : \A x \in Objs :
          (x \in Instances(variant, Slot(T)) /\ heap[x] = "live") =>
              \/ /\ x \in Instances(variant, [created |-> created'[T],
                                              instance_ptr |-> instance_ptr'[T],
                                              ptr |-> ptr'[T],
                                              get_enabled |-> get_enabled'[T]])
                 /\ heap'[x] = "live"
              \/ \E t \in Threads : Destroying(t, T) /\ pc'[t] # pc[t]]_vars

\* C18 witness: a call on a Live slot has been refused and the instance the
\* slot held when the call began is still there, alive.
C18_Witness ==
    \E t \in Threads :
        /\ Ended(t) /\ result[t] # "ok"
        /\ IsLive(variant, pre[t])
        /\ Instances(variant, pre[t]) # {}
        /\ Instances(variant, Slot(op[t].T)) = Instances(variant, pre[t])
        /\ Alive(variant, pre[t])
        /\ last_ret[op[t].T] \in Instances(variant, pre[t])

\* C19: get (get_global) never changes the slot: whether it succeeds or
\* fails, the instance, the created flag and get_enabled are at every point of
\* the call what they were when it began, and the instance stays alive.
C19_GetChangesNothing ==
    \A t \in Threads : Running(t, {"get"}) =>
        /\ Slot(op[t].T) = pre[t]
        /\ Alive(variant, pre[t])

\* C19 witness: a get has returned the instance and the slot is as it was
\* before the call.
C19_Witness ==
    \E t \in Threads :
        /\ Ended(t) /\ op[t].kind = "get" /\ result[t] = "ok"
        /\ ref[t] \in Instances(variant, pre[t])
        /\ Slot(op[t].T) = pre[t]

\* C20: in the raw-pointer variants, destroy through a concurrency policy
\* other than the one whose create made the live instance fails with
\* singularity_destroy_on_incorrect_threading and changes nothing, and a
\* destroy through the original policy (then) succeeds.
C20_DestroyWrongThreading ==
    \A t \in Threads :
        (variant = "raw" /\ Running(t, {"destroy"}) /\ IsLive(variant, pre[t])) =>
            IF pre[t].instance_ptr[op[t].M] = NULL
            THEN /\ Slot(op[t].T) = pre[t]
                 /\ Alive(variant, pre[t])
                 /\ Instances(variant, pre[t]) # {}
                 /\ Ended(t) => result[t] = "destroy_on_incorrect_threading"
            ELSE Ended(t) => /\ result[t] = "ok"
                             /\ Slot(op[t].T) = EmptySlot
                             /\ heap[pre[t].instance_ptr[op[t].M]] = "deleted"

\* C20 witness: destroy through multi_threaded has been refused with
\* singularity_destroy_on_incorrect_threading on an instance made through
\* single_threaded.
C20_Witness ==
    \E t \in Threads :
        /\ variant = "raw"
        /\ Ended(t) /\ op[t].kind = "destroy" /\ op[t].M = "multi_threaded"
        /\ result[t] = "destroy_on_incorrect_threading"
        /\ instance_ptr[op[t].T]["single_threaded"] # NULL
        /\ created[op[t].T]

\* C21: the slot is shared by all instantiations for the same managed type
\* and concurrency policy (whatever their access policy and constructor
\* arguments): an instance made through one makes create through any other
\* fail with already_created, can be destroyed through any other, and after
\* that destroy through any of them fails with already_destroyed.
C21_SharedByInstantiations ==
    \A t \in Threads : Ended(t) =>
        /\ (op[t].kind \in CreateKinds /\ Held(variant, pre[t], op[t].M) # NULL) =>
               /\ result[t] = "already_created"
               /\ Slot(op[t].T) = pre[t]
        /\ (op[t].kind = "destroy" /\ Held(variant, pre[t], op[t].M) # NULL) =>
               /\ result[t] = "ok"
               /\ ~IsLive(variant, Slot(op[t].T))
               /\ heap[Held(variant, pre[t], op[t].M)] = "deleted"
        /\ (op[t].kind = "destroy" /\ ~IsLive(variant, pre[t])) =>
               result[t] = "already_destroyed"

\* C21 witness: an instance made through a global_access instantiation has
\* been destroyed through a local_access instantiation of the same policy.
C21_Witness ==
    \E t \in Threads :
        /\ variant \in StaticVariants
        /\ Ended(t) /\ op[t].kind = "destroy" /\ result[t] = "ok"
        /\ last_via[op[t].T] = "global_access"
        /\ op[t].G = "local_access"
        /\ last_ret[op[t].T] = Held(variant, pre[t], op[t].M)

\* C22: for a type derived from singularity_base, constructions and
\* destructions following one another: constructing while an object of the
\* type is alive throws singularity_already_created and leaves created true
\* and that object registered and alive; once the live object is destructed
\* a new construction succeeds.
C22_BaseOneObject ==
    /\ \A T \in Types : Cardinality(LiveObjs(T)) <= 1
    /\ AllIdle => \A T \in Types : created[T] <=> LiveObjs(T) # {}
    /\ \A t \in Threads : pc[t] = "base_done" =>
          IF op[t].kind = "destruct"
          THEN ~created[op[t].T] /\ LiveObjs(op[t].T) = {}
          ELSE IF pre[t].created
          THEN /\ result[t] = "already_created"
               /\ created[op[t].T]
               /\ Cardinality(LiveObjs(op[t].T)) = 1
               /\ ref[t] = NULL
          ELSE IF op[t].throws
          THEN result[t] = "ctor_exception" /\ ~created[op[t].T]
          ELSE /\ result[t] = "ok"
               /\ created[op[t].T]
               /\ LiveObjs(op[t].T) = {ref[t]}

\* C22 witness: a construction has been refused while an object of the
\* type lives, that object having been constructed after an earlier one was
\* destructed.
C22_Witness ==
    \E t \in Threads :
        /\ pc[t] = "base_done" /\ op[t].kind = "construct"
        /\ result[t] = "already_created"
        /\ created[op[t].T]
        /\ \E o, d \in Objs : /\ type_of[o] = op[t].T /\ heap[o] = "live"
                              /\ type_of[d] = op[t].T /\ heap[d] = "deleted"
                              /\ d < o

\* C23: in the static-policy variants the instance can be retrieved by get
\* only if the create that made it granted global access: an instance made
\* through a local_access / no_global_access instantiation is never returned
\* by get of any instantiation for the type.
C23_GetOnlyIfGranted ==
    \A t \in Threads :
        (/\ variant \in StaticVariants
         /\ Ended(t) /\ op[t].kind = "get" /\ result[t] = "ok") =>
            last_via[op[t].T] = "global_access"

\* Empty or Live, read off a header's own state.
Lifecycle(v, s) == IF IsLive(v, s) THEN "Live" ELSE "Empty"

\* C24: for create and destroy calls made through a single concurrency policy
\* (constructors completing), every source variant answers each call as the
\* one Empty/Live lifecycle does (success, already_created,
\* already_destroyed) and moves between Empty and Live as it does; the
\* variants therefore produce the same outcomes and the same states.
C24_VariantsAgree ==
    \A t \in Threads :
        (/\ Running(t, CreateKinds \cup {"destroy"})
         /\ ~op[t].throws
         /\ IsLive(variant, pre[t]) => Held(variant, pre[t], op[t].M) # NULL) =>
            /\ ~aborted
            /\ Ended(t) =>
                  /\ result[t] = Outcome(Lifecycle(variant, pre[t]), op[t])
                  /\ Lifecycle(variant, Slot(op[t].T))
                         = After(Lifecycle(variant, pre[t]), op[t])

\* C25: the multi_threaded lock is one lock per managed type.  A call on T
\* waits in its guard only for the lock of T: whenever that lock is free the
\* call can enter, whatever other threads are doing on another type, and the
\* lock of T is only ever held by a call on T; two calls on the same T are
\* never both past their guards.
C25_LockPerType ==
    /\ \A t \in Threads :
           (/\ pc[t] = "guard_ctor" /\ op[t].M = "multi_threaded"
            /\ lockable[op[t].T] = Unlocked /\ ~aborted)
               => ENABLED guard_ctor(t)
    /\ \A T \in Types :
           lockable[T] # Unlocked => Using(lockable[T], T)
    /\ \A t, u \in Threads :
           (/\ t # u
            /\ pc[t] \notin {"idle", "guard_ctor"}
            /\ pc[u] \notin {"idle", "guard_ctor"}
            /\ op[t].M = "multi_threaded" /\ op[u].M = "multi_threaded")
               => op[t].T # op[u].T

\* C25 witness: one thread is inside an operation on T1, holding T1's lock,
\* while another thread has entered and is inside an operation on T2.
C25_Witness ==
    \E t, u \in Threads :
        /\ InBody(t) /\ op[t].T = "T1" /\ lockable["T1"] = t
        /\ InBody(u) /\ op[u].T = "T2" /\ lockable["T2"] = u

\* The objects of T that operator new has handed out so far.
Constructed(T) == {o \in Objs : heap[o] # "unallocated" /\ type_of[o] = T}

\* C26: with single_threaded the guard is a no-op: it takes no lock and never
\* makes a call wait, so nothing keeps a second create from running the
\* already-created check while a first one is between its check and its
\* write (the interleaving is exhibited by the witness).
C26_GuardIsNoOp ==
    /\ \A T \in Types : lockable[T] = Unlocked
    /\ \A t \in Threads :
           (pc[t] = "guard_ctor" /\ ~aborted) => ENABLED guard_ctor(t)

\* C26 witness: two threads called create on the Empty slot at the same time,
\* both passed the check, both constructed an instance and both returned with
\* success.
C26_Witness ==
    \E t, u \in Threads :
        /\ t # u
        /\ Ended(t) /\ Ended(u)
        /\ op[t].kind \in CreateKinds /\ op[u].kind \in CreateKinds
        /\ op[t].M = "single_threaded" /\ op[u].M = "single_threaded"
        /\ op[t].T = "T1" /\ op[u].T = "T1"
        /\ result[t] = "ok" /\ result[u] = "ok"
        /\ ref[t] # NULL /\ ref[u] # NULL
        /\ Cardinality(Constructed("T1")) = 2

\* C27: with multi_threaded, constructors and destructors that terminate and
\* a fair lock, every create / destroy / get call that has begun eventually
\* returns to its caller, with a result or an error.
C27_EveryCallReturns ==
    \A t \in Threads : (pc[t] # "idle") ~> (pc[t] = "idle")

\* C29: every instance made by a successful create is destructed exactly
\* once, by the destroy that matches it: no object's destructor runs twice,
\* and when no call is running no live instance of T is left behind an Empty
\* slot.
C29_DestructedOnce ==
    /\ \A o \in Objs : dtor_calls[o] <= 1
    /\ \A T \in Types :
           (AllIdle /\ ~IsLive(variant, Slot(T))) => LiveObjs(T) = {}

\* C30 as claimed: in the raw-pointer variants, get through a global_access
\* instantiation returns the live instance whatever concurrency policy the
\* create that made it used.
C30_GetAnyPolicy ==
    \A t \in Threads :
        (/\ variant = "raw"
         /\ Ended(t) /\ op[t].kind = "get"
         /\ pre[t].created) =>
            /\ result[t] = "ok"
            /\ ref[t] \in Instances(variant, pre[t])

\* C30: in the raw-pointer variants, get through a global_access
\* instantiation of policy M on a Live slot returns the live instance when
\* the create that made it went through the same M, and throws
\* singularity_not_created, returning nothing, when it went through another
\* policy.
C30_GetThroughCreatingPolicy ==
    \A t \in Threads :
        (/\ variant = "raw"
         /\ Ended(t) /\ op[t].kind = "get"
         /\ pre[t].created) =>
            IF pre[t].instance_ptr[op[t].M] # NULL
            THEN /\ result[t] = "ok"
                 /\ ref[t] = pre[t].instance_ptr[op[t].M]
                 /\ heap[ref[t]] = "live"
            ELSE /\ result[t] = "not_created"
                 /\ ref[t] = NULL

\* C30 witness: the instance was created through one policy and is alive; get
\* through the other policy has thrown singularity_not_created.
C30_Witness ==
    \E t \in Threads : \E M \in Policies :
        /\ variant = "raw"
        /\ Ended(t) /\ op[t].kind = "get" /\ op[t].G = "global_access"
        /\ M # op[t].M
        /\ pre[t].created
        /\ pre[t].instance_ptr[M] # NULL /\ heap[pre[t].instance_ptr[M]] = "live"
        /\ pre[t].instance_ptr[op[t].M] = NULL
        /\ result[t] = "not_created"

\* C31: when the constructor of the managed type throws during create on an
\* Empty slot, the call fails with the constructor's exception, constructs
\* nothing, and leaves the slot exactly as it was before the call: no
\* instance, created false, get_enabled unchanged.
C31_FailedCreateChangesNothing ==
    \A t \in Threads :
        (/\ Ended(t) /\ op[t].kind \in CreateKinds /\ op[t].throws
         /\ ~IsLive(variant, pre[t])) =>
            /\ result[t] = "ctor_exception"
            /\ ref[t] = NULL
            /\ Slot(op[t].T) = pre[t]

\* Thread t is between the guard's constructor and the guard's destructor of
\* a call on T: in its check-and-mutate section.
InSection(t, T) == InBody(t) /\ op[t].T = T

\* C32 as claimed: whatever policies the instantiations use, the
\* check-and-mutate sections of two callers of T never interleave, and at most
\* one instance of T is ever live.
C32_ExclusionCoversAllCallers ==
    /\ \A t, u \in Threads : \A T \in Types :
           (t # u /\ InSection(t, T)) => ~InSection(u, T)
    /\ \A T \in Types : Cardinality(LiveObjs(T)) <= 1

\* C32: mutual exclusion on T covers the callers that go through
\* multi_threaded instantiations, and only them: two multi_threaded callers of
\* T are never both in their sections, the lock of T is only ever held by a
\* multi_threaded caller of T, and a single_threaded caller takes no lock and
\* is never made to wait, not even while a multi_threaded caller holds the
\* lock of T.
C32_ExclusionAmongMultiThreaded ==
    /\ \A t, u \in Threads : \A T \in Types :
           (/\ t # u /\ InSection(t, T) /\ InSection(u, T))
               => ~(op[t].M = "multi_threaded" /\ op[u].M = "multi_threaded")
    /\ \A T \in Types :
           lockable[T] # Unlocked =>
               /\ Using(lockable[T], T)
               /\ op[lockable[T]].M = "multi_threaded"
    /\ \A t \in Threads :
           (pc[t] = "guard_ctor" /\ op[t].M = "single_threaded" /\ ~aborted)
               => ENABLED guard_ctor(t)

\* C32 witness: a create through multi_threaded and a create through
\* single_threaded ran on the Empty slot at the same time, both succeeded, and
\* two instances of T are live.
C32_Witness ==
    \E t, u \in Threads :
        /\ Ended(t) /\ op[t].kind = "create" /\ op[t].M = "multi_threaded"
        /\ Ended(u) /\ op[u].kind = "create" /\ op[u].M = "single_threaded"
        /\ op[t].T = "T1" /\ op[u].T = "T1"
        /\ lockable["T1"] = t
        /\ result[t] = "ok" /\ result[u] = "ok"
        /\ Cardinality(LiveObjs("T1")) = 2

\* Thread t is handing a reference to its caller: a successful create or get
\* through multi_threaded has executed its return statement.
Handing(t) ==
    /\ op[t].kind \in CreateKinds \cup {"get"}
    /\ op[t].M = "multi_threaded"
    /\ result[t] = "ok"

\* C33 as claimed: with multi_threaded, the reference returned by a successful
\* create or get refers to a live instance when the caller receives it: from
\* the return statement until the caller has the reference in hand, no other
\* thread's destroy tears the instance down.
C33_LiveWhenReceived ==
    \A t \in Threads :
        (pc[t] \in {"guard_dtor", "returning"} /\ Handing(t)) =>
            /\ ref[t] # NULL
            /\ heap[ref[t]] = "live"

\* C33: with multi_threaded, from the return statement of a successful create
\* or get until the guard's destructor releases the lock, the calling thread
\* holds the lock of T, no other thread is inside an operation on T, and the
\* reference being returned refers to a live instance of T.
C33_LiveUntilUnlock ==
    \A t \in Threads :
        (pc[t] = "guard_dtor" /\ Handing(t)) =>
            /\ ref[t] # NULL
            /\ heap[ref[t]] = "live"
            /\ type_of[ref[t]] = op[t].T
            /\ lockable[op[t].T] = t
            /\ \A u \in Threads :
                   u # t => pc[u] \in {"idle", "guard_ctor", "returning"}

\* C33 witness: get through multi_threaded was returning the live instance
\* while another thread's destroy waited for the lock; the guard released
\* the lock, the destroy ran, and the instance is gone before the caller of
\* get has the reference in hand.
C33_Witness ==
    \E t, u \in Threads :
        /\ pc[t] = "returning" /\ op[t].kind = "get" /\ Handing(t)
        /\ ref[t] # NULL /\ heap[ref[t]] = "deleted"
        /\ u # t /\ op[u].kind = "destroy" /\ op[u].M = "multi_threaded"
        /\ pc[u] \in {"guard_dtor", "returning"} /\ result[u] = "ok"

\* C34: in the raw-pointer variants, destroy on an Empty slot fails with
\* singularity_already_destroyed through every concurrency policy and changes
\* nothing; singularity_destroy_on_incorrect_threading is raised only when
\* the slot is Live and the live instance is held by the pointer of another
\* policy.
C34_DestroyErrors ==
    \A t \in Threads :
        (variant = "raw" /\ Ended(t) /\ op[t].kind = "destroy") =>
            /\ ~pre[t].created =>
                   /\ result[t] = "already_destroyed"
                   /\ Slot(op[t].T) = pre[t]
            /\ result[t] = "destroy_on_incorrect_threading" =>
                   /\ pre[t].created
                   /\ pre[t].instance_ptr[op[t].M] = NULL
                   /\ \E M \in Policies \ {op[t].M} :
                          /\ pre[t].instance_ptr[M] # NULL
                          /\ heap[pre[t].instance_ptr[M]] = "live"

\* C34 witness: after an instance of T was created and destroyed, destroy
\* through multi_threaded on the Empty slot has thrown
\* singularity_already_destroyed.
C34_Witness ==
    \E t \in Threads :
        /\ variant = "raw"
        /\ Ended(t) /\ op[t].kind = "destroy" /\ op[t].M = "multi_threaded"
        /\ ~pre[t].created
        /\ \A M \in Policies : pre[t].instance_ptr[M] = NULL
        /\ last_ret[op[t].T] # NULL
        /\ result[t] = "already_destroyed"

====
